---- MODULE Spec2Model ----
(***************************************************************************)
(* Vendor-Connect backend: the GroupOrder aggregate (participants,         *)
(* currentQuantity, status) of backend/models/GroupOrder.js and the order  *)
(* number generation of backend/models/Order.js.                           *)
(*                                                                         *)
(*   Spec            one group order, addParticipant / removeParticipant   *)
(*                   applied one after another, plus lifecycle changes     *)
(*   SpecConcurrent  join requests that each load the group order, call    *)
(*                   addParticipant on their copy and save it back         *)
(*   SpecOrders      Order documents saved concurrently (pre-save hook,    *)
(*                   then the write against the unique orderNumber index)  *)
(*   SpecSequence    Order documents saved one after another, on a day     *)
(*                   with no orders or one already numbered up to 9998     *)
(***************************************************************************)
EXTENDS Integers, Sequences, FiniteSets, TLC

\* ---------------------------------------------------------------- bounds
NumVendors == 3
MaxQty == 2
MaxTarget == 3
MaxCap == 2
MaxTotal == 4
NumReq == 3
NumDocs == 3
MaxDay == 2
MaxSaves == 2

Vendors == 1..NumVendors
Quantities == 1..MaxQty
Reqs == 1..NumReq
Docs == 1..NumDocs

VARIABLES
  order,        \* the stored GroupOrder document
  last,         \* the last operation applied to it: arguments, outcome, state before
  rpc,          \* per join request: "start", "loaded", "done"
  rarg,         \* per join request: vendorId and quantity
  rdoc,         \* per join request: the copy of the group order loaded in memory
  today,        \* the calendar day new Date() falls on
  persisted,    \* the Order documents stored in the collection
  orderNumber,  \* per Order document: this.orderNumber
  lastOrder,    \* per Order document: the result of the hook's findOne
  dateStr,      \* per Order document: the hook's dateStr
  opc,          \* per Order document: position inside save()
  saveError,    \* per Order document: outcome of the last finished save()
  allocs,       \* per Order document: how often the hook computed a number
  saves,        \* per Order document: how often save() was called
  existing      \* orderNumbers of the Orders stored before these documents were created

gvars == <<order, last>>
cvars == <<rpc, rarg, rdoc>>
ovars == <<today, persisted, orderNumber, lastOrder, dateStr, opc, saveError, allocs, saves,
           existing>>
vars == <<order, last, rpc, rarg, rdoc, today, persisted, orderNumber, lastOrder,
          dateStr, opc, saveError, allocs, saves, existing>>

\* ------------------------------------------------------------ GroupOrder
StatusEnum == {"active", "target_reached", "ordered", "delivered", "cancelled"}

RECURSIVE SumQuantity(_)
SumQuantity(ps) ==
  IF ps = <<>> THEN 0 ELSE Head(ps).quantity + SumQuantity(Tail(ps))

\* Array.prototype.findIndex: 0-based index of the first match, -1 when none
findIndex(ps, vendorId) ==
  IF \E i \in 1..Len(ps) : ps[i].vendor = vendorId
  THEN (CHOOSE i \in 1..Len(ps) :
          /\ ps[i].vendor = vendorId
          /\ \A j \in 1..(i - 1) : ps[j].vendor # vendorId) - 1
  ELSE -1

\* Array.prototype.splice(index, 1), index 0-based
splice(ps, index) ==
  [i \in 1..(Len(ps) - 1) |-> IF i <= index THEN ps[i] ELSE ps[i + 1]]

NewGroupOrder(target, cap) ==
  [targetQuantity |-> target, currentQuantity |-> 0, maxParticipants |-> cap,
   participants |-> <<>>, status |-> "active"]

addParticipant_NoTotal(this, vendorId, quantity) ==
  LET idx == findIndex(this.participants, vendorId)
      ps == IF idx # -1
            THEN [this.participants EXCEPT ![idx + 1].quantity = @ + quantity]
            ELSE Append(this.participants, [vendor |-> vendorId, quantity |-> quantity])
      cq == IF idx # -1 THEN this.currentQuantity ELSE this.currentQuantity + quantity
      st == IF cq >= this.targetQuantity /\ this.status = "active"
            THEN "target_reached" ELSE this.status
  IN [doc |-> [this EXCEPT !.participants = ps, !.currentQuantity = cq, !.status = st],
      error |-> "none"]

addParticipant_AlwaysPush(this, vendorId, quantity) ==
  LET ps == Append(this.participants, [vendor |-> vendorId, quantity |-> quantity])
      cq == this.currentQuantity + quantity
      st == IF cq >= this.targetQuantity /\ this.status = "active"
            THEN "target_reached" ELSE this.status
  IN [doc |-> [this EXCEPT !.participants = ps, !.currentQuantity = cq, !.status = st],
      error |-> "none"]

addParticipant_NoStatusGuard(this, vendorId, quantity) ==
  LET idx == findIndex(this.participants, vendorId)
      ps == IF idx # -1
            THEN [this.participants EXCEPT ![idx + 1].quantity = @ + quantity]
            ELSE Append(this.participants, [vendor |-> vendorId, quantity |-> quantity])
      cq == this.currentQuantity + quantity
      st == IF cq >= this.targetQuantity THEN "target_reached" ELSE this.status
  IN [doc |-> [this EXCEPT !.participants = ps, !.currentQuantity = cq, !.status = st],
      error |-> "none"]

addParticipant_StrictTarget(this, vendorId, quantity) ==
  LET idx == findIndex(this.participants, vendorId)
      ps == IF idx # -1
            THEN [this.participants EXCEPT ![idx + 1].quantity = @ + quantity]
            ELSE Append(this.participants, [vendor |-> vendorId, quantity |-> quantity])
      cq == this.currentQuantity + quantity
      st == IF cq > this.targetQuantity /\ this.status = "active"
            THEN "target_reached" ELSE this.status
  IN [doc |-> [this EXCEPT !.participants = ps, !.currentQuantity = cq, !.status = st],
      error |-> "none"]

\* groupOrderSchema.methods.addParticipant: returns the document after the
\* call and the error thrown ("none": the method has no throw and no check)
addParticipant(this, vendorId, quantity) ==
  LET idx == findIndex(this.participants, vendorId)
      ps == IF idx # -1
            THEN [this.participants EXCEPT ![idx + 1].quantity = @ + quantity]
            ELSE Append(this.participants, [vendor |-> vendorId, quantity |-> quantity])
      cq == this.currentQuantity + quantity
      st == IF cq >= this.targetQuantity /\ this.status = "active"
            THEN "target_reached" ELSE this.status
  IN [doc |-> [this EXCEPT !.participants = ps, !.currentQuantity = cq, !.status = st],
      error |-> "none"]

removeParticipant_NoReset(this, vendorId) ==
  LET participantIndex == findIndex(this.participants, vendorId)
  IN IF participantIndex # -1
     THEN LET removedQuantity == this.participants[participantIndex + 1].quantity
              cq == this.currentQuantity - removedQuantity
          IN [doc |-> [this EXCEPT !.participants = splice(this.participants, participantIndex),
                                   !.currentQuantity = cq],
              error |-> "none"]
     ELSE [doc |-> this, error |-> "none"]

\* groupOrderSchema.methods.removeParticipant: a vendor without an entry falls
\* through the if; nothing is thrown or returned
removeParticipant(this, vendorId) ==
  LET participantIndex == findIndex(this.participants, vendorId)
  IN IF participantIndex # -1
     THEN LET removedQuantity == this.participants[participantIndex + 1].quantity
              cq == this.currentQuantity - removedQuantity
              st == IF cq < this.targetQuantity /\ this.status = "target_reached"
                    THEN "active" ELSE this.status
          IN [doc |-> [this EXCEPT !.participants = splice(this.participants, participantIndex),
                                   !.currentQuantity = cq, !.status = st],
              error |-> "none"]
     ELSE [doc |-> this, error |-> "none"]

\* The status edges a privileged actor takes explicitly
LifecycleEdges ==
  {<<"target_reached", "ordered">>, <<"ordered", "delivered">>,
   <<"active", "cancelled">>, <<"target_reached", "cancelled">>}

ToggleEdges == {<<"active", "target_reached">>, <<"target_reached", "active">>}

LegalEdges == ToggleEdges \cup LifecycleEdges

Op(name, vendorId, quantity, error) ==
  [op |-> name, vendor |-> vendorId, quantity |-> quantity, error |-> error, pre |-> order]

Join(vendorId, quantity) ==
  /\ order.currentQuantity + quantity <= MaxTotal
  /\ LET r == addParticipant(order, vendorId, quantity)
     IN /\ order' = r.doc
        /\ last' = Op("join", vendorId, quantity, r.error)
  /\ UNCHANGED <<cvars, ovars>>

Leave(vendorId) ==
  /\ LET r == removeParticipant(order, vendorId)
     IN /\ order' = r.doc
        /\ last' = Op("leave", vendorId, 0, r.error)
  /\ UNCHANGED <<cvars, ovars>>

SetStatus(to) ==
  /\ <<order.status, to>> \in LifecycleEdges
  /\ to = "ordered" => order.currentQuantity >= order.targetQuantity
  /\ order' = [order EXCEPT !.status = to]
  /\ last' = Op("setStatus", 0, 0, "none")
  /\ UNCHANGED <<cvars, ovars>>

\* ------------------------------------------------- concurrent join requests
JoinLoad(p, vendorId, quantity) ==
  /\ rpc[p] = "start"
  /\ rpc' = [rpc EXCEPT ![p] = "loaded"]
  /\ rarg' = [rarg EXCEPT ![p] = [vendor |-> vendorId, quantity |-> quantity]]
  /\ rdoc' = [rdoc EXCEPT ![p] = order]
  /\ UNCHANGED <<gvars, ovars>>

JoinSave(p) ==
  /\ rpc[p] = "loaded"
  /\ LET r == addParticipant(rdoc[p], rarg[p].vendor, rarg[p].quantity)
     IN /\ rdoc' = [rdoc EXCEPT ![p] = r.doc]
        /\ order' = r.doc
  /\ rpc' = [rpc EXCEPT ![p] = "done"]
  /\ UNCHANGED <<last, rarg, ovars>>

\* ------------------------------------------------------------------ Order
\* An orderNumber string `VC${dateStr}${digits}`: the day dateStr encodes (always
\* 8 characters, so it is kept as the day) and the characters after it
NoNumber == [date |-> 0, seq |-> <<>>]

\* Number.prototype.toString for a non-negative integer: its decimal digits
RECURSIVE toString(_)
toString(n) == IF n < 10 THEN <<n>> ELSE Append(toString(n \div 10), n % 10)

\* String.prototype.padStart(targetLength, '0'): never truncates
RECURSIVE padStart(_, _)
padStart(s, targetLength) ==
  IF Len(s) >= targetLength THEN s ELSE padStart(<<0>> \o s, targetLength)

\* String.prototype.slice(-n): the last n characters (the whole string if shorter)
sliceLast(s, n) ==
  IF Len(s) <= n THEN s ELSE SubSeq(s, Len(s) - n + 1, Len(s))

\* parseInt of a string of decimal digits
RECURSIVE parseInt(_)
parseInt(s) ==
  IF s = <<>> THEN 0 ELSE 10 * parseInt(SubSeq(s, 1, Len(s) - 1)) + s[Len(s)]

\* String order of the sort: character by character, a proper prefix first
StrLess(a, b) ==
  \E k \in 1..Len(b) :
    /\ \A i \in 1..(k - 1) : i <= Len(a) /\ a[i] = b[i]
    /\ (k > Len(a) \/ a[k] < b[k])

OrderNumberLess(a, b) ==
  \/ a.date < b.date
  \/ a.date = b.date /\ StrLess(a.seq, b.seq)

\* findOne({orderNumber: /^VC${dateStr}/}).sort({orderNumber: -1}); null is NoNumber
findOne(day) ==
  LET matching == {orderNumber[d] : d \in {x \in persisted : orderNumber[x].date = day}}
                  \cup {o \in existing : o.date = day}
  IN IF matching = {} THEN NoNumber
     ELSE CHOOSE m \in matching : \A o \in matching : o = m \/ OrderNumberLess(o, m)

DuplicateKey_Never(d) == FALSE

SaveStart_AlwaysAllocate(d) ==
  /\ opc[d] = "idle"
  /\ saves[d] < MaxSaves
  /\ saves' = [saves EXCEPT ![d] = @ + 1]
  /\ dateStr' = [dateStr EXCEPT ![d] = today]
  /\ lastOrder' = [lastOrder EXCEPT ![d] = findOne(today)]
  /\ opc' = [opc EXCEPT ![d] = "found"]
  /\ UNCHANGED <<gvars, cvars, today, persisted, orderNumber, saveError, allocs, existing>>

\* unique: true on orderNumber: the insert is rejected when a stored Order
\* already holds the same value
DuplicateKey(d) ==
  \/ \E x \in persisted : x # d /\ orderNumber[x] = orderNumber[d]
  \/ orderNumber[d] \in existing

\* save() is called; the pre-save hook starts and, for a document without an
\* orderNumber, reads the date and awaits the query for the last order
SaveStart(d) ==
  /\ opc[d] = "idle"
  /\ saves[d] < MaxSaves
  /\ saves' = [saves EXCEPT ![d] = @ + 1]
  /\ IF orderNumber[d] = NoNumber
     THEN /\ dateStr' = [dateStr EXCEPT ![d] = today]
          /\ lastOrder' = [lastOrder EXCEPT ![d] = findOne(today)]
          /\ opc' = [opc EXCEPT ![d] = "found"]
     ELSE /\ opc' = [opc EXCEPT ![d] = "hooked"]
          /\ UNCHANGED <<dateStr, lastOrder>>
  /\ UNCHANGED <<gvars, cvars, today, persisted, orderNumber, saveError, allocs, existing>>

\* save() is called while no other save() is in progress
SeqSaveStart(d) ==
  /\ \A x \in Docs : opc[x] = "idle"
  /\ SaveStart(d)

\* the hook resumes after the await, assigns this.orderNumber and calls next()
PreSaveAssign(d) ==
  /\ opc[d] = "found"
  /\ LET sequence == IF lastOrder[d] # NoNumber
                     THEN parseInt(sliceLast(lastOrder[d].seq, 4)) + 1
                     ELSE 1
     IN orderNumber' = [orderNumber EXCEPT ![d] =
                          [date |-> dateStr[d], seq |-> padStart(toString(sequence), 4)]]
  /\ allocs' = [allocs EXCEPT ![d] = @ + 1]
  /\ opc' = [opc EXCEPT ![d] = "hooked"]
  /\ UNCHANGED <<gvars, cvars, today, persisted, lastOrder, dateStr, saveError, saves, existing>>

\* the write after the hooks: an insert for a new document (rejected with the
\* duplicate key error E11000 by the unique index), an update otherwise
Write(d) ==
  /\ opc[d] = "hooked"
  /\ opc' = [opc EXCEPT ![d] = "idle"]
  /\ IF d \notin persisted /\ DuplicateKey(d)
     THEN /\ saveError' = [saveError EXCEPT ![d] = "E11000"]
          /\ UNCHANGED persisted
     ELSE /\ saveError' = [saveError EXCEPT ![d] = "none"]
          /\ persisted' = persisted \cup {d}
  /\ UNCHANGED <<gvars, cvars, today, orderNumber, lastOrder, dateStr, allocs, saves, existing>>

NewDay ==
  /\ today < MaxDay
  /\ today' = today + 1
  /\ UNCHANGED <<gvars, cvars, persisted, orderNumber, lastOrder, dateStr, opc,
                 saveError, allocs, saves, existing>>

InitOrders ==
  /\ today = 1
  /\ persisted = {}
  /\ orderNumber = [d \in Docs |-> NoNumber]
  /\ lastOrder = [d \in Docs |-> NoNumber]
  /\ dateStr = [d \in Docs |-> 0]
  /\ opc = [d \in Docs |-> "idle"]
  /\ saveError = [d \in Docs |-> "none"]
  /\ allocs = [d \in Docs |-> 0]
  /\ saves = [d \in Docs |-> 0]

\* A day on which the numbering has already reached VC<day 1>9998
BusyDay == {[date |-> 1, seq |-> <<9, 9, 9, 8>>]}

\* ---------------------------------------------------------- specifications
InitGroup ==
  /\ \E target \in 1..MaxTarget, cap \in 1..MaxCap :
       /\ order = NewGroupOrder(target, cap)
       /\ last = [op |-> "create", vendor |-> 0, quantity |-> 0, error |-> "none",
                  pre |-> NewGroupOrder(target, cap)]
       /\ rdoc = [p \in Reqs |-> NewGroupOrder(target, cap)]
  /\ rpc = [p \in Reqs |-> "start"]
  /\ rarg = [p \in Reqs |-> [vendor |-> 0, quantity |-> 0]]

Init ==
  /\ InitGroup
  /\ InitOrders
  /\ existing = {}

\* The Order specifications leave the group order alone: one is enough
InitNoJoins ==
  /\ order = NewGroupOrder(1, 1)
  /\ last = [op |-> "create", vendor |-> 0, quantity |-> 0, error |-> "none",
             pre |-> NewGroupOrder(1, 1)]
  /\ rdoc = [p \in Reqs |-> NewGroupOrder(1, 1)]
  /\ rpc = [p \in Reqs |-> "start"]
  /\ rarg = [p \in Reqs |-> [vendor |-> 0, quantity |-> 0]]

InitCollection ==
  /\ InitNoJoins
  /\ InitOrders
  /\ existing = {}

InitSequence ==
  /\ InitNoJoins
  /\ InitOrders
  /\ existing \in {{}, BusyDay}

Next ==
  \/ \E v \in Vendors, q \in Quantities : Join(v, q)
  \/ \E v \in Vendors : Leave(v)
  \/ \E to \in StatusEnum : SetStatus(to)

Spec == Init /\ [][Next]_vars

NextConcurrent ==
  \/ \E p \in Reqs, v \in Vendors, q \in Quantities : JoinLoad(p, v, q)
  \/ \E p \in Reqs : JoinSave(p)

SpecConcurrent == Init /\ [][NextConcurrent]_vars

NextOrders ==
  \/ \E d \in Docs : SaveStart(d)
  \/ \E d \in Docs : PreSaveAssign(d)
  \/ \E d \in Docs : Write(d)
  \/ NewDay

SpecOrders == InitCollection /\ [][NextOrders]_vars

NextSequence ==
  \/ \E d \in Docs : SeqSaveStart(d)
  \/ \E d \in Docs : PreSaveAssign(d)
  \/ \E d \in Docs : Write(d)
  \/ NewDay

SpecSequence == InitSequence /\ [][NextSequence]_vars

\* ------------------------------------------------ properties: GroupOrder
IsParticipant(doc, vendorId) == findIndex(doc.participants, vendorId) # -1

QuantityOf(doc, vendorId) == doc.participants[findIndex(doc.participants, vendorId) + 1].quantity

SameRecord(a, b) ==
  /\ a.participants = b.participants
  /\ a.currentQuantity = b.currentQuantity
  /\ a.status = b.status

\* C1: when all concurrent join requests on the group order have completed,
\* currentQuantity equals the sum of the quantities they joined with (no
\* increment is lost).
RECURSIVE SumJoined(_)
SumJoined(ps) ==
  IF ps = {} THEN 0
  ELSE LET p == CHOOSE x \in ps : TRUE IN rarg[p].quantity + SumJoined(ps \ {p})

C1_NoLostJoin ==
  (\A p \in Reqs : rpc[p] = "done") => order.currentQuantity = SumJoined(Reqs)

\* C4: after any sequence of addParticipant / removeParticipant calls applied
\* one after another to a new group order, currentQuantity equals the sum of
\* the quantities of the entries of participants.
C4_QuantityIsSum == order.currentQuantity = SumQuantity(order.participants)

C4_Witness ==
  /\ last.op = "leave"
  /\ IsParticipant(last.pre, last.vendor)
  /\ Len(order.participants) >= 1
  /\ \E i \in 1..Len(order.participants) : order.participants[i].quantity > MaxQty

\* C5: participants never holds more than maxParticipants entries; a join by
\* a new vendor at the cap fails with CapacityExceeded and adds no entry.
C5_CapacityRespected ==
  /\ Len(order.participants) <= order.maxParticipants
  /\ (/\ last.op = "join"
      /\ ~IsParticipant(last.pre, last.vendor)
      /\ Len(last.pre.participants) >= last.pre.maxParticipants)
     => (last.error = "CapacityExceeded" /\ order.participants = last.pre.participants)

\* C6: every change of status follows a legal edge; join and leave change
\* status only along active -> target_reached and target_reached -> active and
\* never move an order out of ordered, delivered or cancelled.
C6_LegalStatusEdges ==
  /\ order.status # last.pre.status => <<last.pre.status, order.status>> \in LegalEdges
  /\ (last.op \in {"join", "leave"} /\ order.status # last.pre.status)
     => <<last.pre.status, order.status>> \in ToggleEdges
  /\ (last.op \in {"join", "leave"} /\ last.pre.status \in {"ordered", "delivered", "cancelled"})
     => order.status = last.pre.status

C6_Witness ==
  /\ last.op = "join"
  /\ last.pre.status = "cancelled"
  /\ last.pre.currentQuantity < order.targetQuantity
  /\ order.currentQuantity >= order.targetQuantity
  /\ order.status = "cancelled"

\* C7: a join while status is not active fails with OrderClosed and leaves
\* participants, currentQuantity and status unchanged.
C7_JoinClosedRejected ==
  (last.op = "join" /\ last.pre.status # "active")
  => (last.error = "OrderClosed" /\ SameRecord(order, last.pre))

\* C8: a leave by a participant while status is ordered, delivered or
\* cancelled fails with OrderLocked and removes nothing.
C8_LeaveLockedRejected ==
  (/\ last.op = "leave"
   /\ IsParticipant(last.pre, last.vendor)
   /\ last.pre.status \in {"ordered", "delivered", "cancelled"})
  => (/\ last.error = "OrderLocked"
      /\ order.participants = last.pre.participants
      /\ order.currentQuantity = last.pre.currentQuantity)

\* C9: a leave by a vendor without an entry fails with NotAParticipant and
\* leaves participants, currentQuantity and status unchanged.
C9_LeaveNonParticipant ==
  (last.op = "leave" /\ ~IsParticipant(last.pre, last.vendor))
  => (last.error = "NotAParticipant" /\ SameRecord(order, last.pre))

\* C10: participants holds at most one entry per vendor; a join by a vendor
\* who already participates adds the quantity to the existing entry.
C10_OneEntryPerVendor ==
  /\ \A i, j \in 1..Len(order.participants) :
       order.participants[i].vendor = order.participants[j].vendor => i = j
  /\ (last.op = "join" /\ IsParticipant(last.pre, last.vendor))
     => /\ Len(order.participants) = Len(last.pre.participants)
        /\ QuantityOf(order, last.vendor) = QuantityOf(last.pre, last.vendor) + last.quantity

C10_Witness ==
  /\ last.op = "join"
  /\ IsParticipant(last.pre, last.vendor)
  /\ Len(order.participants) >= 2
  /\ QuantityOf(order, last.vendor) > last.quantity

\* C11: a join on an active group order that brings currentQuantity to at
\* least targetQuantity sets status to target_reached in the same step; a leave
\* on a target_reached group order that brings currentQuantity below
\* targetQuantity sets status back to active in the same step.
C11_TargetToggle ==
  /\ (/\ last.op = "join"
      /\ last.pre.status = "active"
      /\ order.currentQuantity >= order.targetQuantity)
     => order.status = "target_reached"
  /\ (/\ last.op = "leave"
      /\ last.pre.status = "target_reached"
      /\ order.currentQuantity < order.targetQuantity)
     => order.status = "active"

C11_Witness ==
  /\ last.op = "leave"
  /\ last.pre.status = "target_reached"
  /\ last.pre.participants = <<[vendor |-> last.vendor, quantity |-> order.targetQuantity]>>
  /\ order.currentQuantity = 0
  /\ order.status = "active"

\* C14: in every state reached from a new group order by addParticipant calls
\* with quantity >= 1 and removeParticipant calls, status active implies
\* currentQuantity < targetQuantity and status target_reached implies
\* currentQuantity >= targetQuantity.
C14_StatusAgreesWithQuantity ==
  /\ order.status = "active" => order.currentQuantity < order.targetQuantity
  /\ order.status = "target_reached" => order.currentQuantity >= order.targetQuantity

C14_Witness ==
  /\ last.op = "leave"
  /\ IsParticipant(last.pre, last.vendor)
  /\ last.pre.status = "target_reached"
  /\ order.status = "target_reached"
  /\ order.currentQuantity = order.targetQuantity

\* ----------------------------------------------------- properties: Order
\* C2: whatever the interleaving of concurrent Order creations, no two
\* stored Orders hold the same orderNumber.
C2_UniqueOrderNumbers ==
  \A d1, d2 \in persisted : orderNumber[d1] = orderNumber[d2] => d1 = d2

C2_Witness ==
  \E d1, d2, d3 \in Docs :
    /\ d1 \in persisted /\ d2 \in persisted /\ d1 # d2
    /\ orderNumber[d1].date = orderNumber[d2].date
    /\ d3 \notin persisted
    /\ saveError[d3] = "E11000"
    /\ orderNumber[d3] = orderNumber[d1]

\* C3: a creation whose candidate number collides at write time is retried
\* with the next candidate; the caller sees a failure only after retries.
C3_CollisionRetried ==
  \A d \in Docs : saveError[d] = "E11000" => allocs[d] >= 2

\* The order numbers stored in the collection
StoredNumbers == {orderNumber[d] : d \in persisted} \cup existing

\* C12: for Order creations performed one after another, each new order
\* number is VC + date + exactly 4 sequence digits, and its sequence is
\* greater than that of every order number assigned before on that day (the
\* first is 0001), also when the previous highest sequence is 9999.
C12_FourDigitsIncreasing ==
  \A d \in Docs :
    (opc[d] = "hooked" /\ allocs[d] = 1 /\ saves[d] = 1)
    => /\ Len(orderNumber[d].seq) = 4
       /\ \A o \in StoredNumbers :
            o.date = orderNumber[d].date => parseInt(o.seq) < parseInt(orderNumber[d].seq)
       /\ (\A o \in StoredNumbers : o.date # orderNumber[d].date)
          => orderNumber[d].seq = <<0, 0, 0, 1>>

\* C13: a save of an Order that already has an orderNumber leaves the
\* orderNumber unchanged and allocates no new sequence number.
C13_AssignedOnce ==
  [][\A d \in Docs :
       orderNumber[d] # NoNumber
       => (orderNumber'[d] = orderNumber[d] /\ allocs'[d] = allocs[d])]_vars

C13_Witness ==
  \E d, x \in Docs :
    /\ d # x
    /\ d \in persisted /\ x \in persisted
    /\ saves[d] = 2 /\ opc[d] = "idle" /\ saveError[d] = "none"
    /\ allocs[d] = 1
    /\ orderNumber[d].date < today
    /\ OrderNumberLess(orderNumber[d], orderNumber[x])

====
